---- MODULE Spec2Model ----
(***************************************************************************)
(* Session lifecycle of main.py: the module-level chat store that is       *)
(* loaded at import and persisted on termination, the agents built by      *)
(* create_agent, the Chainlit handlers (factory, main, cleanup) and the    *)
(* terminal block under __main__.                                          *)
(*                                                                         *)
(* main.py hands each chat to the agent framework (agent.achat,            *)
(* agent.chat_repl).  The framework's part is modelled by what those calls *)
(* do to the objects main.py passes in: a chat collects its turns in a     *)
(* task-local buffer and writes them to the agent's memory in one step     *)
(* when the task is finalized; a tool flagged return_direct ends the       *)
(* reasoning loop with its output as the response; the loop fails with an  *)
(* error once the agent's max_iterations reasoning steps are used up;      *)
(* chat_repl resets the agent's memory, then reads lines until "exit".     *)
(***************************************************************************)
EXTENDS Integers, Sequences, FiniteSets, TLC

VARIABLES
    file,        \* contents of chat_store.json on disk
    chat_store,  \* module-level SimpleChatStore: key -> list of turns
    pc,          \* position of the process: boot, ready, created, repl, exited, crashed
    mode,        \* how the process was launched: web (chainlit run) or terminal
    run,         \* number of the current process run
    session,     \* web sessions: status and the agent kept in cl.user_session
    agents,      \* agents constructed in this run, in order of construction
    task,        \* per client, the chat call in flight
    nextCall,    \* number given to the next chat call
    last,        \* history: the state was produced by the load, by create_agent, by a
                 \* persist (cleanup, interrupt) or by another operation
    flush,       \* history: the store and the file contents at the last persist
    loaded       \* history: what the last persist had written when this run loaded

vars == <<file, chat_store, pc, mode, run, session, agents, task, nextCall,
          last, flush, loaded>>

(* ---------------------------------------------------------------- bounds *)

MaxCalls == 2

MaxRuns == 2

(* ------------------------------------------------------------- constants *)

\* create_agent(..., max_action_steps: int = 5)
DefaultMaxActionSteps == 5

\* ReActAgent.from_tools is called without max_iterations, so the agent
\* keeps the framework's default.
DefaultMaxIterations == 10

Sessions == {"s1", "s2"}

Tty == "tty"

Clients == Sessions \cup {Tty}

\* Keys a chat store may hold.  main.py only ever uses "user1".
Keys == {"user1", "mem1", "mem2"}

KeyOrder == <<"user1", "mem1", "mem2">>

(* ------------------------------------------------------------ chat turns *)

UserTurn(id) == [role |-> "user", content |-> <<"msg", id>>]

AssistantTurn(content) == [role |-> "assistant", content |-> content]

EmptyStore == <<>>

Get(store, key) == IF key \in DOMAIN store THEN store[key] ELSE <<>>

Set(store, key, msgs) ==
    [k \in (DOMAIN store) \cup {key} |-> IF k = key THEN msgs ELSE store[k]]

Delete(store, key) == [k \in (DOMAIN store) \ {key} |-> store[k]]

(* ------------------------------------------- chat_store.json on disk *)

\* The file is missing, unreadable as a chat store, or a JSON document:
\* the store's mapping written as a list of (key, list of message dicts).
Missing == [kind |-> "missing", data |-> <<>>]

Corrupt == [kind |-> "corrupt", data |-> <<>>]

MessageToDict(turn) == <<turn.role, turn.content[1], turn.content[2]>>

DictToMessage(d) == [role |-> d[1], content |-> <<d[2], d[3]>>]

RECURSIVE EncodeFrom(_, _)
EncodeFrom(store, i) ==
    IF i > Len(KeyOrder) THEN <<>>
    ELSE LET k == KeyOrder[i]
             rest == EncodeFrom(store, i + 1)
         IN IF k \in DOMAIN store
            THEN <<  <<k, [j \in 1..Len(store[k]) |-> MessageToDict(store[k][j])]>>  >> \o rest
            ELSE rest

Encode(store) == [kind |-> "json", data |-> EncodeFrom(store, 1)]

RECURSIVE Decode(_)
Decode(data) ==
    IF data = <<>> THEN EmptyStore
    ELSE LET n == Len(data)
             entry == data[n]
         IN Set(Decode(SubSeq(data, 1, n - 1)), entry[1],
                [j \in 1..Len(entry[2]) |-> DictToMessage(entry[2][j])])

\* chat_store.persist(persist_path="chat_store.json"): the file is opened for
\* writing and the whole store is dumped into it.
persist_keep_existing(store, f) == IF f.kind = "missing" THEN Encode(store) ELSE f

persist(store, f) == Encode(store)

\* SimpleChatStore.from_persist_path: a missing path gives a new store, an
\* unreadable file raises, a readable one gives the store it holds.
from_persist_path(f) ==
    CASE f.kind = "missing" -> [raised |-> FALSE, store |-> EmptyStore]
      [] f.kind = "corrupt" -> [raised |-> TRUE, store |-> EmptyStore]
      [] OTHER -> [raised |-> FALSE, store |-> Decode(f.data)]

\* Module level, lines 52-56: try the load, fall back to a new store.
LoadNoFallback(f) ==
    LET r == from_persist_path(f)
    IN IF r.raised THEN [pc |-> "crashed", store |-> EmptyStore]
       ELSE [pc |-> "ready", store |-> r.store]

LoadAlwaysNew(f) == [pc |-> "ready", store |-> EmptyStore]

LoadChatStore(f) ==
    LET r == from_persist_path(f)
    IN IF r.raised THEN [pc |-> "ready", store |-> EmptyStore]
       ELSE [pc |-> "ready", store |-> r.store]

\* chat_memory = ChatMemoryBuffer.from_defaults(chat_store=chat_store,
\*                                              chat_store_key="user1")
chat_memory == [chat_store_key |-> "user1"]

(* ------------------------------------------------------------------ agents *)

all_tools_none_direct ==
    << [name |-> "suggest_choices", return_direct |-> FALSE],
       [name |-> "roll_a_dice", return_direct |-> FALSE],
       [name |-> "roll_a_skill", return_direct |-> FALSE] >>

all_tools ==
    << [name |-> "suggest_choices", return_direct |-> TRUE],
       [name |-> "roll_a_dice", return_direct |-> FALSE],
       [name |-> "roll_a_skill", return_direct |-> FALSE] >>

\* memory=chat_memory: every agent is given the module-level buffer.
PrivateMemory(n) == [chat_store_key |-> KeyOrder[n + 1]]

AgentMemory(n) == chat_memory

\* create_agent; n is the identity of the new object (the n-th agent built).
create_agent(should_use_chainlit, max_action_steps, n) ==
    [ chainlit       |-> should_use_chainlit,
      tools          |-> all_tools,
      memory         |-> AgentMemory(n),
      max_iterations |-> DefaultMaxIterations,
      allowance      |-> max_action_steps ]

\* The bound the comment in create_agent describes: two reasoning steps per
\* action (the action and its observation) plus the final answer.
DerivedMaxIterations(max_action_steps) == max_action_steps * 2 + 1

\* cl.user_session.get("agent") in main.
global_agent_get(sess, s, made) == Len(made)

user_session_get(sess, s, made) == sess[s].agent

(* --------------------------------------------------------------- chat call *)

Idle ==
    [ status |-> "idle", id |-> 0, agent |-> 0, steps |-> 0, new_memory |-> <<>>,
      choice_used |-> FALSE, after_choice |-> FALSE,
      response |-> <<"none", 0>> ]

ToolOutput(name, id) == <<name, id>>

FinalAnswer(id) == <<"answer", id>>

\* The user turn goes to the task's own buffer; the agent's memory is not
\* touched until the task is finalized.
BeginChatEager(store, key, turn) == Set(store, key, Append(Get(store, key), turn))

BeginChat(store, key, turn) == store

\* finalize: memory.set(memory.get_all() + new_memory.get_all())
FinalizeTask(store, key, new_memory) == Set(store, key, Get(store, key) \o new_memory)

(* -------------------------------------------------------------- initially *)

PriorStore == Set(EmptyStore, "user1", <<UserTurn(0), AssistantTurn(FinalAnswer(0))>>)

NoSession == [status |-> "new", agent |-> 0]

NoFlush == [some |-> FALSE, store |-> EmptyStore, overwrote |-> FALSE]

\* The history kept of a persist of store over the file contents f.
Flushed(store, f, g) ==
    [some |-> TRUE, store |-> store, overwrote |-> f.kind = "json" /\ f # g]

Init ==
    /\ file \in {Missing, Corrupt, Encode(PriorStore)}
    /\ chat_store = EmptyStore
    /\ pc = "boot"
    /\ mode = "none"
    /\ run = 1
    /\ session = [s \in Sessions |-> NoSession]
    /\ agents = <<>>
    /\ task = [c \in Clients |-> Idle]
    /\ nextCall = 1
    /\ last = "init"
    /\ flush = NoFlush
    /\ loaded = [some |-> FALSE, store |-> EmptyStore]

(* ------------------------------------------------------- process start-up *)

\* Import of main.py (lines 52-60), under the web launcher or as a program.
Start(m) ==
    /\ pc = "boot"
    /\ LET r == LoadChatStore(file)
       IN /\ pc' = r.pc
          /\ chat_store' = r.store
    /\ mode' = m
    /\ loaded' = [some |-> flush.some, store |-> flush.store]
    /\ last' = "load"
    /\ UNCHANGED <<file, run, session, agents, task, nextCall, flush>>

\* The process is gone; the file stays.  The next run starts from boot.
Restart ==
    /\ pc \in {"exited", "crashed"}
    /\ run < MaxRuns
    /\ run' = run + 1
    /\ pc' = "boot"
    /\ mode' = "none"
    /\ chat_store' = EmptyStore
    /\ session' = [s \in Sessions |-> NoSession]
    /\ agents' = <<>>
    /\ task' = [c \in Clients |-> Idle]
    /\ last' = "other"
    /\ UNCHANGED <<file, nextCall, flush, loaded>>

(* -------------------------------------------------------- the chat call *)

AgentOf(c) == agents[task[c].agent].obj

MemoryKey(a) == agents[a].obj.memory.chat_store_key

\* agent.chat / agent.achat up to the first model call.
StartTask(c, a) ==
    /\ nextCall <= MaxCalls
    /\ task' = [task EXCEPT ![c] =
                   [Idle EXCEPT !.status = "running", !.id = nextCall, !.agent = a,
                                !.new_memory = <<UserTurn(nextCall)>>]]
    /\ chat_store' = BeginChat(chat_store, MemoryKey(a), UserTurn(nextCall))
    /\ nextCall' = nextCall + 1

\* The task after the model asked for tool t: the action and its observation
\* are two reasoning steps.
AfterTool(t, tk) ==
    [tk EXCEPT !.steps = @ + 2,
               !.choice_used = @ \/ t.name = "suggest_choices",
               !.after_choice = @ \/ tk.choice_used]

\* The task once its response is known: the response turn joins the task's
\* buffer, which finalize then empties into the agent's memory; the loop and
\* its step count are over.
Finished(tk, content) ==
    [tk EXCEPT !.status = "done", !.response = content, !.new_memory = <<>>,
               !.steps = 0]

\* One pass of the reasoning loop that calls tool number i of the agent.
ToolStep(c, i) ==
    /\ task[c].status = "running"
    /\ i \in DOMAIN AgentOf(c).tools
    /\ LET a  == AgentOf(c)
           t  == a.tools[i]
           tk == AfterTool(t, task[c])
           out == ToolOutput(t.name, tk.id)
       IN IF t.return_direct
          THEN /\ task' = [task EXCEPT ![c] = Finished(tk, out)]
               /\ chat_store' = FinalizeTask(chat_store, a.memory.chat_store_key,
                                             Append(tk.new_memory, AssistantTurn(out)))
               /\ pc' = pc
               /\ last' = "other"
          ELSE IF tk.steps >= a.max_iterations
          THEN \* "Reached max iterations": the chat call raises.
               /\ task' = [task EXCEPT ![c] = [tk EXCEPT !.status = "failed"]]
               /\ chat_store' = chat_store
               /\ pc' = IF c = Tty THEN "exited" ELSE pc
               /\ last' = "other"
          ELSE /\ task' = [task EXCEPT ![c] = tk]
               /\ chat_store' = chat_store
               /\ pc' = pc
               /\ last' = "other"
    /\ UNCHANGED <<file, mode, run, session, agents, nextCall, flush, loaded>>

\* The pass in which the model gives its final answer.
FinalStep(c) ==
    /\ task[c].status = "running"
    /\ LET a  == AgentOf(c)
           tk == [task[c] EXCEPT !.steps = @ + 1, !.after_choice = @ \/ task[c].choice_used]
           out == FinalAnswer(tk.id)
       IN /\ task' = [task EXCEPT ![c] = Finished(tk, out)]
          /\ chat_store' = FinalizeTask(chat_store, a.memory.chat_store_key,
                                        Append(tk.new_memory, AssistantTurn(out)))
    /\ last' = "other"
    /\ UNCHANGED <<file, pc, mode, run, session, agents, nextCall, flush, loaded>>

(* ------------------------------------------------------- the web front-end *)

\* @cl.on_chat_start
factory(s) ==
    /\ mode = "web" /\ pc = "ready"
    /\ session[s].status = "new"
    /\ LET n == Len(agents) + 1
       IN /\ agents' = Append(agents, [obj |-> create_agent(TRUE, DefaultMaxActionSteps, n),
                                       by |-> s])
          /\ session' = [session EXCEPT ![s] = [status |-> "open", agent |-> n]]
    /\ last' = "create"
    /\ UNCHANGED <<file, chat_store, pc, mode, run, task, nextCall, flush, loaded>>

\* @cl.on_message, up to the await of agent.achat.
main(s) ==
    /\ mode = "web" /\ pc = "ready"
    /\ session[s].status = "open"
    /\ task[s].status = "idle"
    /\ StartTask(s, user_session_get(session, s, agents))
    /\ last' = "other"
    /\ UNCHANGED <<file, pc, mode, run, session, agents, flush, loaded>>

\* The rest of main: the response is sent, or the handler ends with the error.
main_return(s) ==
    /\ mode = "web" /\ pc = "ready"
    /\ task[s].status \in {"done", "failed"}
    /\ task' = [task EXCEPT ![s] = Idle]
    /\ last' = "other"
    /\ UNCHANGED <<file, chat_store, pc, mode, run, session, agents, nextCall, flush,
                   loaded>>

\* @cl.on_chat_end
cleanup(s) ==
    /\ mode = "web" /\ pc = "ready"
    /\ session[s].status = "open"
    /\ file' = persist(chat_store, file)
    /\ flush' = Flushed(chat_store, file, file')
    /\ session' = [session EXCEPT ![s].status = "ended"]
    /\ last' = "cleanup"
    /\ UNCHANGED <<chat_store, pc, mode, run, agents, task, nextCall, loaded>>

\* The web server is stopped.
ServerStop ==
    /\ mode = "web" /\ pc = "ready"
    /\ pc' = "exited"
    /\ last' = "other"
    /\ UNCHANGED <<file, chat_store, mode, run, session, agents, task, nextCall, flush,
                   loaded>>

(* ------------------------------------------------------- the terminal run *)

\* agent = create_agent(should_use_chainlit=False)
TermCreateAgent ==
    /\ mode = "terminal" /\ pc = "ready"
    /\ agents' = <<[obj |-> create_agent(FALSE, DefaultMaxActionSteps, 1), by |-> Tty]>>
    /\ pc' = "created"
    /\ last' = "create"
    /\ UNCHANGED <<file, chat_store, mode, run, session, task, nextCall, flush, loaded>>

\* agent.chat_repl() begins: the agent is reset, then the first line is awaited.
ReplEnter ==
    /\ mode = "terminal" /\ pc = "created"
    /\ chat_store' = Delete(chat_store, MemoryKey(1))
    /\ pc' = "repl"
    /\ last' = "other"
    /\ UNCHANGED <<file, mode, run, session, agents, task, nextCall, flush, loaded>>

\* A line is read and handed to agent.chat.
ReplInput ==
    /\ mode = "terminal" /\ pc = "repl"
    /\ task[Tty].status = "idle"
    /\ StartTask(Tty, 1)
    /\ last' = "other"
    /\ UNCHANGED <<file, pc, mode, run, session, agents, flush, loaded>>

\* The response is printed and the next line awaited.
ReplPrint ==
    /\ mode = "terminal" /\ pc = "repl"
    /\ task[Tty].status = "done"
    /\ task' = [task EXCEPT ![Tty] = Idle]
    /\ last' = "other"
    /\ UNCHANGED <<file, chat_store, pc, mode, run, session, agents, nextCall, flush,
                   loaded>>

\* The line read is "exit": chat_repl returns and the program ends.
ReplExit ==
    /\ mode = "terminal" /\ pc = "repl"
    /\ task[Tty].status = "idle"
    /\ pc' = "exited"
    /\ last' = "other"
    /\ UNCHANGED <<file, chat_store, mode, run, session, agents, task, nextCall, flush,
                   loaded>>

\* End of input at the prompt: input() raises EOFError, which the try does
\* not catch.
ReplEOF ==
    /\ mode = "terminal" /\ pc = "repl"
    /\ task[Tty].status = "idle"
    /\ pc' = "exited"
    /\ last' = "other"
    /\ UNCHANGED <<file, chat_store, mode, run, session, agents, task, nextCall, flush,
                   loaded>>

\* except KeyboardInterrupt: at the prompt or in the middle of a chat call.
KeyboardInterrupt ==
    /\ mode = "terminal" /\ pc = "repl"
    /\ task[Tty].status \in {"idle", "running", "done"}
    /\ task' = [task EXCEPT ![Tty] =
                   IF @.status = "running"
                   THEN [@ EXCEPT !.status = "abandoned", !.new_memory = <<>>]
                   ELSE @]
    /\ file' = persist(chat_store, file)
    /\ flush' = Flushed(chat_store, file, file')
    /\ pc' = "exited"
    /\ last' = "interrupt"
    /\ UNCHANGED <<chat_store, mode, run, session, agents, nextCall, loaded>>

(* --------------------------------------------------------- specification *)

Next ==
    \/ \E m \in {"web", "terminal"} : Start(m)
    \/ Restart
    \/ \E s \in Sessions : factory(s)
    \/ \E s \in Sessions : main(s)
    \/ \E s \in Sessions : main_return(s)
    \/ \E s \in Sessions : cleanup(s)
    \/ ServerStop
    \/ \E c \in Clients, i \in 1..3 : ToolStep(c, i)
    \/ \E c \in Clients : FinalStep(c)
    \/ TermCreateAgent
    \/ ReplEnter
    \/ ReplInput
    \/ ReplPrint
    \/ ReplExit
    \/ ReplEOF
    \/ KeyboardInterrupt

Spec == Init /\ [][Next]_vars

(* ---------------------------------------------------------------- claims *)

View(a) == Get(chat_store, MemoryKey(a))

HasTurnOf(turns, id) == \E i \in DOMAIN turns : turns[i].content[2] = id

IsPrefix(p, q) == Len(p) <= Len(q) /\ SubSeq(q, 1, Len(p)) = p

\* The turns come in pairs: a user turn, then the response of the same chat call.
WellPaired(turns) ==
    /\ Len(turns) % 2 = 0
    /\ \A i \in DOMAIN turns :
          i % 2 = 1 =>
             /\ turns[i].role = "user"
             /\ turns[i + 1].role = "assistant"
             /\ turns[i].content[2] = turns[i + 1].content[2]

Bound(s) == session[s].agent # 0

\* C1 as stated: a turn recorded by a chat call of web session s is never
\* visible in the memory used by the agent of another web session t.
C1_Original ==
    \A s, t \in Sessions :
        (s # t /\ Bound(s) /\ Bound(t) /\ task[s].status = "done")
            => ~HasTurnOf(View(session[t].agent), task[s].id)

\* C1 amended: two open web sessions have distinct agents, but both agents
\* hold the one module-level memory buffer, so the turns recorded by a chat
\* call of session s are in the memory used by the agent of session t.
C1_SharedMemory ==
    \A s, t \in Sessions :
        (s # t /\ Bound(s) /\ Bound(t)) =>
            /\ session[s].agent # session[t].agent
            /\ agents[session[s].agent].obj.memory = agents[session[t].agent].obj.memory
            /\ task[s].status = "done" => HasTurnOf(View(session[t].agent), task[s].id)

C1_Witness ==
    /\ Bound("s1") /\ Bound("s2")
    /\ task["s2"].status = "running"
    /\ task["s1"].status = "done"
    /\ HasTurnOf(View(session["s2"].agent), task["s1"].id)

\* C2: right after a termination event (cleanup of a web session, interrupt
\* of the terminal loop) the file holds exactly the in-memory chat store,
\* whatever it held before.
C2_FlushEqualsStore ==
    last \in {"cleanup", "interrupt"} =>
        /\ file.kind = "json"
        /\ Decode(file.data) = chat_store

C2_Witness ==
    /\ last = "cleanup"
    /\ flush.overwrote
    /\ Len(Get(chat_store, "user1")) >= 4

\* C3: a load that fails (file missing or corrupt) does not stop start-up:
\* the process is ready with a store that has no turn under any key.
C3_LoadFallback ==
    /\ pc # "crashed"
    /\ (last = "load" /\ file.kind \in {"missing", "corrupt"}) =>
          /\ pc = "ready"
          /\ chat_store = EmptyStore
          /\ \A k \in Keys : Get(chat_store, k) = <<>>

C3_Witness == last = "load" /\ file.kind = "corrupt" /\ pc = "ready"

\* C4: a run that starts after a persist loads exactly the store that was
\* persisted (same keys, same turns, same order), and the memory of an agent
\* created in that run begins with the persisted turns.
C4_RoundTrip ==
    loaded.some =>
        /\ last = "load" => chat_store = loaded.store
        /\ last = "create" =>
              \A a \in DOMAIN agents : IsPrefix(Get(loaded.store, "user1"), View(a))

C4_Witness ==
    /\ loaded.some
    /\ last = "create"
    /\ Len(Get(loaded.store, "user1")) >= 2
    /\ View(Len(agents)) = Get(loaded.store, "user1")

\* C5 as stated: the agent's iteration bound is the one derived from its
\* allowance, and no chat call takes more reasoning steps than that.
C5_BoundDerived ==
    \A a \in DOMAIN agents :
        /\ agents[a].obj.max_iterations = DerivedMaxIterations(agents[a].obj.allowance)
        /\ \A c \in Clients :
              (task[c].status = "running" /\ task[c].agent = a)
                  => task[c].steps <= DerivedMaxIterations(agents[a].obj.allowance)

\* C6: once the choice-suggestion tool has been invoked in a turn, the turn
\* is over with that tool's output as its response and no step follows; no
\* other tool's output ever becomes the response, and of the registered
\* tools only suggest_choices is return-direct.
C6_ReturnDirect ==
    /\ \A c \in Clients :
          /\ task[c].choice_used =>
                /\ task[c].status = "done"
                /\ task[c].response = ToolOutput("suggest_choices", task[c].id)
                /\ ~task[c].after_choice
          /\ task[c].status = "done" => task[c].response[1] \in {"answer", "suggest_choices"}
    /\ \A a \in DOMAIN agents : \A i \in DOMAIN agents[a].obj.tools :
          agents[a].obj.tools[i].return_direct
              <=> agents[a].obj.tools[i].name = "suggest_choices"

C6_Witness ==
    \E c, d \in Clients :
        /\ task[c].choice_used /\ task[c].status = "done"
        /\ task[c].response = ToolOutput("suggest_choices", task[c].id)
        /\ task[d].status = "running" /\ task[d].steps >= 2

C8_OneAgentPerSession ==
    /\ \A s \in Sessions :
          LET mine == {a \in DOMAIN agents : agents[a].by = s}
          IN IF session[s].status = "new"
             THEN mine = {} /\ task[s].status = "idle"
             ELSE /\ mine = {session[s].agent}
                  /\ \A t \in Sessions \ {s} : session[t].agent # session[s].agent
                  /\ task[s].status # "idle" => task[s].agent = session[s].agent
    /\ (mode = "terminal" /\ pc \in {"created", "repl", "exited"}) =>
          /\ Len(agents) = 1 /\ agents[1].by = Tty
          /\ task[Tty].status # "idle" => task[Tty].agent = 1

C8_Witness ==
    /\ task["s1"].status = "running" /\ task["s2"].status = "running"
    /\ task["s1"].agent = 2 /\ task["s2"].agent = 1

\* C9 as stated: on every path by which the terminal loop stops, the program
\* ends with the store persisted: every turn the store holds is in the file.
C9_FlushedOnEveryExit ==
    (mode = "terminal" /\ pc = "exited") =>
        LET mem == Get(chat_store, "user1")
            written == Get(from_persist_path(file).store, "user1")
        IN \A i \in DOMAIN mem : \E j \in DOMAIN written : written[j] = mem[i]

====
